---- MODULE Spec2Model ----
(***************************************************************************)
(* A model of tui-textarea's viewport / renderer (src/src/widget.rs) and   *)
(* of the `ded` editor shell built on it (src/ded/src/main.rs).            *)
(*                                                                         *)
(* Two specifications share the module:                                    *)
(*   SpecView : one TextArea with its Viewport, scrolled and rendered.     *)
(*   Spec     : the editor's input dispatch over its buffers and overlays. *)
(*                                                                         *)
(* Machine integers are scaled down: U64Max stands for u64::MAX, U16Max    *)
(* for u16::MAX and I64Max for i64::MAX, with u64::MAX = 2*i64::MAX + 1 as *)
(* on the machine.  Arithmetic the source writes with + and - is checked:  *)
(* Rust panics on overflow when overflow checks are on (debug builds) and  *)
(* wraps when they are off (release builds); an operation that can        *)
(* overflow takes either outcome.                                          *)
(***************************************************************************)
EXTENDS Integers, Sequences, FiniteSets, TLC

\* ---------------------------------------------------------------- bounds
I64Max == 3
U16Max == 3
MaxLines == 10
MaxRow == 2
MaxCol == 4
MaxEvents == 4
MaxLineLen == 2
MaxBufLines == 2
MaxQuery == 2

U64Max == 2 * I64Max + 1
I64Min == 0 - I64Max - 1
U64 == 0..U64Max
U16 == 0..U16Max
I64 == I64Min..I64Max

\* The outcome of an arithmetic step that panicked.
PANIC == 0 - 1

Max(a, b) == IF a >= b THEN a ELSE b
Min(a, b) == IF a <= b THEN a ELSE b

VARIABLES
    panicked,         \* the thread has panicked; nothing runs after that
    viewport,         \* Viewport { width, height, row, col }
    cursor,           \* TextArea::cursor(): <<row, col>>
    lines_len,        \* TextArea::lines().len()
    line_number,      \* TextArea::line_number_style().is_some()
    last_op,          \* the operation that produced this state
    current,          \* Editor::current
    buffers,          \* Editor::buffers: index -> Buffer
    message,          \* Editor::message: None or Some(text)
    pc,               \* where Editor::run stands
    nread,            \* the events read so far
    last_event,       \* the event read last
    files,            \* the file of each buffer: None, or Some(bytes)
    term,             \* the terminal: raw mode, alternate screen, and how often
                      \* it was acquired and released
    renders,          \* the renders since the last event was read
    shown             \* the message the last of them displayed, None if none

viewvars == <<viewport, cursor, lines_len, line_number, last_op>>
edvars == <<current, buffers, message, pc, nread, last_event, files, term,
            renders, shown>>
vars == <<panicked, viewport, cursor, lines_len, line_number, last_op,
          current, buffers, message, pc, nread, last_event, files, term,
          renders, shown>>

\* ------------------------------------------------------ machine arithmetic
\* u64 `a + b`: the sum, PANIC in a checked build, the wrapped sum otherwise.
CheckedAdd(a, b, checks) ==
    IF a = PANIC \/ b = PANIC THEN PANIC
    ELSE IF a + b <= U64Max THEN a + b
    ELSE IF checks THEN PANIC
    ELSE (a + b) % (U64Max + 1)

\* u64 `a - b`.
CheckedSub(a, b, checks) ==
    IF a = PANIC \/ b = PANIC THEN PANIC
    ELSE IF a >= b THEN a - b
    ELSE IF checks THEN PANIC
    ELSE (a - b + U64Max + 1) % (U64Max + 1)

\* u64::saturating_add
saturating_add(a, b) == Min(a + b, U64Max)

\* u64::saturating_sub
saturating_sub(a, b) == Max(a - b, 0)

WrappingAddSigned(a, d) == (a + d + U64Max + 1) % (U64Max + 1)

\* u64::saturating_add_signed
saturating_add_signed(a, d) == Max(0, Min(a + d, U64Max))

\* util::num_digits: the number of decimal digits of i (1 for 0).
RECURSIVE num_digits(_)
num_digits(i) == IF i < 10 THEN 1 ELSE 1 + num_digits(i \div 10)

\* ------------------------------------------------------------- Viewport
\* Viewport::store
store(row, col, width, height) ==
    [width |-> width, height |-> height, row |-> row, col |-> col]

\* Viewport::scroll_top
scroll_top(v) == <<v.row, v.col>>

\* Viewport::rect
rect(v) == <<v.row, v.col, v.width, v.height>>

PositionNoMax(v) ==
    <<v.row, v.col,
      saturating_sub(saturating_add(v.row, v.height), 1),
      saturating_sub(saturating_add(v.col, v.width), 1)>>

\* Viewport::position
position(v) ==
    LET row_top == rect(v)[1]
        col_top == rect(v)[2]
        width == rect(v)[3]
        height == rect(v)[4]
        row_bottom == saturating_sub(saturating_add(row_top, height), 1)
        col_bottom == saturating_sub(saturating_add(col_top, width), 1)
    IN  <<row_top, col_top, Max(row_top, row_bottom), Max(col_top, col_bottom)>>

ScrollWrapping(v, rows, cols) ==
    [v EXCEPT !.row = WrappingAddSigned(v.row, rows),
              !.col = WrappingAddSigned(v.col, cols)]

\* Viewport::scroll, as a function of the viewport
scroll(v, rows, cols) ==
    [v EXCEPT !.row = saturating_add_signed(v.row, rows),
              !.col = saturating_add_signed(v.col, cols)]

\* ------------------------------------------------------------- Renderer
NextScrollTopExclusive(prev_top, cursor_, length, checks) ==
    IF cursor_ < prev_top THEN cursor_
    ELSE IF CheckedAdd(prev_top, length, checks) = PANIC THEN PANIC
    ELSE IF CheckedAdd(prev_top, length, checks) <= cursor_
         THEN CheckedSub(cursor_, length, checks)
    ELSE prev_top

NextScrollTopRecentre(prev_top, cursor_, length, checks) ==
    IF cursor_ < prev_top THEN cursor_
    ELSE IF CheckedAdd(prev_top, length, checks) = PANIC THEN PANIC
    ELSE IF CheckedAdd(prev_top, length, checks) <= cursor_
         THEN CheckedSub(CheckedAdd(cursor_, 1, checks), length, checks)
    ELSE IF cursor_ > prev_top /\ length > 1 THEN prev_top + 1
    ELSE prev_top

\* Renderer::render::next_scroll_top
next_scroll_top(prev_top, cursor_, length, checks) ==
    IF cursor_ < prev_top THEN cursor_
    ELSE IF CheckedAdd(prev_top, length, checks) = PANIC THEN PANIC
    ELSE IF CheckedAdd(prev_top, length, checks) <= cursor_
         THEN CheckedSub(CheckedAdd(cursor_, 1, checks), length, checks)
    ELSE prev_top

\* Renderer::render: the gutter width subtracted from the rectangle's width.
line_number_offset(row, lnum) == IF lnum THEN num_digits(row) + 1 ELSE 0

\* Renderer::text: the digits of the line numbers it renders.
lnum_len(len) == num_digits(len)

\* Renderer::text: the bounds of the slice lines[top_row..bottom_row].
bottom_row(top_row, height, len) == Min(top_row + height, len)

\* Renderer::text: Rust panics on a slice whose start exceeds its end or whose
\* end exceeds the length.
TextPanics(top_row, height, len) ==
    \/ top_row > bottom_row(top_row, height, len)
    \/ bottom_row(top_row, height, len) > len

\* Renderer::render: the values computed for a rectangle whose inner size is
\* width x height, from the cursor and the stored scroll top.
\* top_row, top_col: the new scroll top; length: the column window's length;
\* fail: the step of render that panics, "" if none.
RenderCalc(v, cur, len, lnum, width, height, checks) ==
    LET row == cur[1]
        col == cur[2]
        top_row == next_scroll_top(scroll_top(v)[1], row, height, checks)
        length == CheckedSub(width, line_number_offset(row, lnum), checks)
        top_col == next_scroll_top(scroll_top(v)[2], col, length, checks)
        fail == IF top_row = PANIC THEN "row_arith"
                ELSE IF length = PANIC THEN "width_sub"
                ELSE IF top_col = PANIC THEN "col_arith"
                ELSE IF TextPanics(top_row, height, len) THEN "slice"
                ELSE IF top_col # 0 /\ top_col > U16Max THEN "try_into"
                ELSE ""
    IN  [top_row |-> top_row, top_col |-> top_col, length |-> length, fail |-> fail]

\* ------------------------------------------------------- SpecView actions
\* Viewport::scroll(rows, cols)
Scroll(rows, cols) ==
    /\ ~panicked
    /\ viewport' = scroll(viewport, rows, cols)
    /\ last_op' = "other"
    /\ UNCHANGED <<panicked, cursor, lines_len, line_number, edvars>>

\* Renderer::render on a rectangle whose inner size is width x height, in a
\* build with (checks) or without overflow checks.
Render(width, height, checks) ==
    /\ ~panicked
    /\ LET r == RenderCalc(viewport, cursor, lines_len, line_number, width, height, checks)
       IN  IF r.fail # ""
           THEN /\ panicked' = TRUE
                /\ last_op' = r.fail
                /\ UNCHANGED viewport
           ELSE /\ viewport' = store(r.top_row, r.top_col, width, height)
                /\ last_op' = "render"
                /\ UNCHANGED panicked
    /\ UNCHANGED <<cursor, lines_len, line_number, edvars>>

\* TextArea::move_cursor: the cursor moves within the text.
CursorMoves == {"Up", "Down", "Back", "Forward"}

MovedCursor(cur, len, m) ==
    LET row == cur[1]
        col == cur[2]
    IN  CASE m = "Up" -> <<Max(row - 1, 0), col>>
          [] m = "Down" -> <<Min(row + 1, Min(len - 1, MaxRow)), col>>
          [] m = "Back" -> <<row, Max(col - 1, 0)>>
          [] OTHER -> <<row, Min(col + 1, MaxCol)>>

MoveCursor(m) ==
    /\ ~panicked
    /\ cursor' = MovedCursor(cursor, lines_len, m)
    /\ last_op' = "other"
    /\ UNCHANGED <<panicked, viewport, lines_len, line_number, edvars>>

\* An edit changes the number of lines; the cursor stays on a line of the text.
SetLines(n) ==
    /\ ~panicked
    /\ lines_len' = n
    /\ cursor' = <<Min(cursor[1], n - 1), cursor[2]>>
    /\ last_op' = "other"
    /\ UNCHANGED <<panicked, viewport, line_number, edvars>>

\* TextArea::set_line_number_style / remove_line_number
ToggleLineNumber ==
    /\ ~panicked
    /\ line_number' = ~line_number
    /\ last_op' = "other"
    /\ UNCHANGED <<panicked, viewport, cursor, lines_len, edvars>>

\* ------------------------------------------------------------------ text
\* A line is a sequence of characters; a text is a sequence of characters in
\* which NL separates lines.
NL == "\n"
Chars == {"a", "("}

None == <<>>
Some(x) == <<x>>
unwrap_or(opt, default) == IF opt = None THEN default ELSE opt[1]

\* lines[from..to] joined by newlines (1-based, inclusive).
RECURSIVE Join(_, _, _)
Join(lines, from, to) ==
    IF from > to THEN <<>>
    ELSE IF from = to THEN lines[from]
    ELSE lines[from] \o <<NL>> \o Join(lines, from + 1, to)

\* str::split('\n')
RECURSIVE Split(_)
Split(text) ==
    IF \A i \in 1..Len(text) : text[i] # NL THEN <<text>>
    ELSE LET i == CHOOSE k \in 1..Len(text) :
                      text[k] = NL /\ \A j \in 1..(k - 1) : text[j] # NL
         IN  <<SubSeq(text, 1, i - 1)>> \o Split(SubSeq(text, i + 1, Len(text)))

\* ------------------------------------------------------------- TextArea
\* The editing widget `ded` drives: lines, cursor <<row, col>> (0-based),
\* selection_start (None or Some(position)), search_pattern (<<>>: none),
\* fullscreen and line_number.
PosLe(p, q) == p[1] < q[1] \/ (p[1] = q[1] /\ p[2] <= q[2])

\* The text between the positions s <= e.
TextBetween(lines, s, e) ==
    LET joined == Join(lines, s[1] + 1, e[1] + 1)
        tail == Len(lines[e[1] + 1]) - e[2]
    IN  SubSeq(joined, s[2] + 1, Len(joined) - tail)

\* TextArea::take_selection: the selected text, if a selection is active.
selection_text(ta) ==
    IF ta.selection_start = None THEN None
    ELSE LET a == ta.selection_start[1]
         IN  IF PosLe(a, ta.cursor) THEN Some(TextBetween(ta.lines, a, ta.cursor))
             ELSE Some(TextBetween(ta.lines, ta.cursor, a))

\* TextArea::take_selection: the selection is taken, the text stays.
take_selection(ta) == [ta EXCEPT !.selection_start = None]

\* TextArea::toggle_fullscreen
toggle_fullscreen(f) ==
    CASE f = "Off" -> "Half" [] f = "Half" -> "Full" [] OTHER -> "Off"

\* TextArea::insert_char
insert_char(ta, c) ==
    LET row == ta.cursor[1] + 1
        col == ta.cursor[2]
        line == ta.lines[row]
    IN  [ta EXCEPT !.lines[row] = SubSeq(line, 1, col) \o <<c>> \o SubSeq(line, col + 1, Len(line)),
                   !.cursor = <<row - 1, col + 1>>,
                   !.selection_start = None]

\* TextArea::insert_newline
insert_newline(ta) ==
    LET row == ta.cursor[1] + 1
        col == ta.cursor[2]
        line == ta.lines[row]
    IN  [ta EXCEPT !.lines = SubSeq(ta.lines, 1, row - 1)
                                 \o <<SubSeq(line, 1, col), SubSeq(line, col + 1, Len(line))>>
                                 \o SubSeq(ta.lines, row + 1, Len(ta.lines)),
                   !.cursor = <<row, 0>>,
                   !.selection_start = None]

\* TextArea::move_cursor for the keys Down, Up and Right.
moved(ta, key) ==
    LET row == ta.cursor[1]
        col == ta.cursor[2]
        n == Len(ta.lines)
    IN  CASE key = "Down" ->
                 IF row + 1 < n THEN <<row + 1, Min(col, Len(ta.lines[row + 2]))>> ELSE ta.cursor
          [] key = "Up" ->
                 IF row > 0 THEN <<row - 1, Min(col, Len(ta.lines[row]))>> ELSE ta.cursor
          [] OTHER ->
                 IF col < Len(ta.lines[row + 1]) THEN <<row, col + 1>>
                 ELSE IF row + 1 < n THEN <<row + 1, 0>>
                 ELSE ta.cursor

\* TextArea::input: the widget's key bindings; modified tells whether the text
\* changed.  A movement with shift starts or extends the selection, one
\* without it cancels the selection.
input(ta, ev) ==
    IF ev.key \in Chars /\ ~ev.ctrl /\ ~ev.alt
    THEN [textarea |-> insert_char(ta, ev.key), modified |-> TRUE]
    ELSE IF ev.key = "Enter" \/ (ev.key = "m" /\ ev.ctrl)
    THEN [textarea |-> insert_newline(ta), modified |-> TRUE]
    ELSE IF ev.key \in {"Down", "Up", "Right"}
    THEN [textarea |->
              [ta EXCEPT !.cursor = moved(ta, ev.key),
                         !.selection_start =
                             IF ~ev.shift THEN None
                             ELSE IF @ = None THEN Some(ta.cursor) ELSE @],
          modified |-> FALSE]
    ELSE [textarea |-> ta, modified |-> FALSE]

\* A pattern the regex engine rejects: an unclosed group.
InvalidPattern(q) == \E i \in 1..Len(q) : q[i] = "("

\* TextArea::set_search_pattern: Ok(()) or Err; an empty query clears the
\* pattern, a rejected one leaves the previous pattern in place.
set_search_pattern_err(q) == q # <<>> /\ InvalidPattern(q)

set_search_pattern(ta, q) ==
    IF set_search_pattern_err(q) THEN ta ELSE [ta EXCEPT !.search_pattern = q]

\* The positions where the search pattern matches: it matches inside one line.
Matches(ta) ==
    IF ta.search_pattern = <<>> THEN {}
    ELSE {m \in {<<r - 1, c>> : r \in 1..Len(ta.lines), c \in 0..MaxLineLen} :
             /\ m[2] + Len(ta.search_pattern) <= Len(ta.lines[m[1] + 1])
             /\ SubSeq(ta.lines[m[1] + 1], m[2] + 1, m[2] + Len(ta.search_pattern))
                    = ta.search_pattern}

First(S) == CHOOSE m \in S : \A n \in S : PosLe(m, n)
Last(S) == CHOOSE m \in S : \A n \in S : PosLe(n, m)

\* TextArea::search_forward: the cursor moves to the next match, the one at the
\* cursor counting when match_cursor; the search wraps around.
search_forward_found(ta) == Matches(ta) # {}

search_forward(ta, match_cursor) ==
    LET after == {m \in Matches(ta) :
                     PosLe(ta.cursor, m) /\ (match_cursor \/ m # ta.cursor)}
    IN  IF Matches(ta) = {} THEN ta
        ELSE IF after # {} THEN [ta EXCEPT !.cursor = First(after)]
        ELSE [ta EXCEPT !.cursor = First(Matches(ta))]

\* TextArea::search_back
search_back(ta, match_cursor) ==
    LET before == {m \in Matches(ta) :
                      PosLe(m, ta.cursor) /\ (match_cursor \/ m # ta.cursor)}
    IN  IF Matches(ta) = {} THEN ta
        ELSE IF before # {} THEN [ta EXCEPT !.cursor = Last(before)]
        ELSE [ta EXCEPT !.cursor = Last(Matches(ta))]

\* TextArea::default
TextAreaDefault ==
    [lines |-> <<<<>>>>, cursor |-> <<0, 0>>, selection_start |-> None,
     search_pattern |-> <<>>, fullscreen |-> "Off", line_number |-> FALSE]

\* ------------------------------------------------------------ SearchBox
\* SearchBox { textarea, open }: the lines of its one-line editor (whose cursor
\* stays at the end of the text), open, and the error its block title shows.
SearchBoxDefault == [lines |-> <<<<>>>>, open |-> FALSE, error |-> None]

\* SearchBox::open: the first line of the editor is the previous pattern.
open(search) == [search EXCEPT !.open = TRUE]
prev_search_pattern(search) == search.lines[1]

\* SearchBox::close
close(search) == [search EXCEPT !.open = FALSE]

\* SearchBox::height
search_height(search) == IF search.open THEN 3 ELSE 0

\* TextArea::delete_line(false), on the search editor: the edit buffer is cleared.
delete_line(lines) == <<<<>>>>

\* TextArea::insert_str at the end of the text: the string's lines are inserted.
insert_str(lines, str) ==
    LET pieces == Split(str)
        n == Len(lines)
    IN  SubSeq(lines, 1, n - 1) \o <<lines[n] \o pieces[1]>> \o SubSeq(pieces, 2, Len(pieces))

\* SearchBox::set_pattern
set_pattern(search, pattern) ==
    [search EXCEPT !.lines = insert_str(delete_line(search.lines), pattern)]

\* TextArea::single_line_input, on the search editor: a character is appended,
\* every other key of the model leaves the text alone.
single_line_input_modified(ev) == ev.key \in Chars /\ ~ev.ctrl /\ ~ev.alt

single_line_input(lines, ev) ==
    IF single_line_input_modified(ev)
    THEN [lines EXCEPT ![Len(lines)] = @ \o <<ev.key>>]
    ELSE lines

\* SearchBox::input: whether a query comes back, and the editor after the key.
search_input_some(ev) == ev.key # "Enter" /\ single_line_input_modified(ev)

search_input(search, ev) ==
    IF ev.key = "Enter" THEN search
    ELSE [search EXCEPT !.lines = single_line_input(search.lines, ev)]

\* SearchBox::set_error
set_error(search, err) == [search EXCEPT !.error = err]

\* --------------------------------------------------------------- Buffer
\* The files named on the command line, as read at startup: the first exists
\* and holds two lines, the second does not exist.
FileLines == << <<<<"a">>, <<>>>>, <<<<>>>> >>
FileBytes == << <<<<"a", NL>>>>, <<>> >>
BufferIds == 0..(Len(FileLines) - 1)

\* Buffer::new
BufferNew(lines) ==
    [textarea |-> [TextAreaDefault EXCEPT !.lines = lines, !.line_number = TRUE],
     modified |-> FALSE,
     search |-> SearchBoxDefault]

\* Buffer::save: nothing to do when unmodified; else the file is written, and
\* modified is cleared once every write succeeded.
save(buffer, io_ok) ==
    IF ~buffer.modified THEN buffer
    ELSE IF io_ok THEN [buffer EXCEPT !.modified = FALSE]
    ELSE buffer

\* Buffer::save returns Err: a write of a modified buffer failed.
save_err(buffer, io_ok) == buffer.modified /\ ~io_ok

\* Buffer::save, the bytes handed to the writer: every line but the last with
\* a newline, then the last line, with a newline when it is not empty.
RECURSIVE Terminated(_, _)
Terminated(lines, n) ==
    IF n = 0 THEN <<>> ELSE Terminated(lines, n - 1) \o lines[n] \o <<NL>>

written(lines) ==
    LET last_line == lines[Len(lines)]
    IN  Terminated(lines, Len(lines) - 1) \o last_line
            \o (IF last_line # <<>> THEN <<NL>> ELSE <<>>)

\* What a write that stopped early leaves in the created file.
ProperPrefixes(bytes) == {SubSeq(bytes, 1, n) : n \in 0..(Len(bytes) - 1)}

\* Buffer::save, the file afterwards.  Unmodified: untouched.  The BufWriter is
\* flushed when it is dropped at the end of save, and an error of that flush is
\* discarded: save can return Ok with only a part of the bytes in the file.
\* When save returns Err, File::create failed (file untouched) or a write did.
save_files(buffer, file, io_ok) ==
    IF ~buffer.modified THEN {file}
    ELSE IF io_ok
    THEN {Some(written(buffer.textarea.lines))}
             \cup {Some(b) : b \in ProperPrefixes(written(buffer.textarea.lines))}
    ELSE {file} \cup {Some(b) : b \in ProperPrefixes(written(buffer.textarea.lines))}

\* --------------------------------------------------------------- Editor
\* crossterm events: a key with its modifiers, or a resize of the terminal.
In(key, ctrl, alt, shift) == [key |-> key, ctrl |-> ctrl, alt |-> alt, shift |-> shift]
Key(key) == In(key, FALSE, FALSE, FALSE)
Ctrl(key) == In(key, TRUE, FALSE, FALSE)
Alt(key) == In(key, FALSE, TRUE, FALSE)
Shift(key) == In(key, FALSE, FALSE, TRUE)

Digits == {"0", "1", "2", "3", "4", "5", "6", "7", "8", "9"}
\* `char as u32` of a digit, less '0' as u32.
DigitValue(c) ==
    CASE c = "0" -> 0 [] c = "1" -> 1 [] c = "2" -> 2 [] c = "3" -> 3 [] c = "4" -> 4
      [] c = "5" -> 5 [] c = "6" -> 6 [] c = "7" -> 7 [] c = "8" -> 8 [] OTHER -> 9

\* The keys the model presses.
Inputs ==
    {Key("F11"), Key("F12"), Ctrl("q"), Ctrl("s"), Ctrl("f"), Ctrl("m"),
     Alt("0"), Alt("1"), Alt("2"), Alt("3"), Alt("9"),
     Key("Down"), Key("Up"), Key("Enter"), Key("Esc"),
     Key("a"), Key("("), Shift("Right"), Shift("Down")}

Resize == Key("Resize")
NullKey == Key("Null")

\* From<Event> for Input: a resize, like an unknown key, becomes Key::Null.
into(event) == IF event = Resize THEN NullKey ELSE event

NotFound == "Pattern not found"
Saved == "Saved!"
Switched(n) == <<"Switched to buffer #", n>>

\* `buf_idx = (char as u32 - '1' as u32) as usize` for a digit of value d: the
\* index, PANIC when the subtraction underflows in a build with overflow checks,
\* and the wrapped u32 (above every index) in one without.
buf_idx(d, checks) ==
    IF d >= 1 THEN d - 1
    ELSE IF checks THEN PANIC
    ELSE U64Max

\* Editor::process_input, alt + digit: the switch to buffer idx.
switch_buffer(ed, idx) ==
    IF idx < Len(FileLines) /\ ed.current # idx
    THEN [ed EXCEPT !.current = idx, !.message = Some(Switched(idx + 1))]
    ELSE ed

\* Editor::process_input, ctrl + f with the overlay closed.
open_search(ed) ==
    LET buffer == ed.buffers[ed.current]
        search_pattern == unwrap_or(selection_text(buffer.textarea),
                                    prev_search_pattern(buffer.search))
    IN  [ed EXCEPT !.buffers[ed.current] =
            [buffer EXCEPT
                !.textarea = set_search_pattern(take_selection(buffer.textarea), search_pattern),
                !.search = set_error(set_pattern(open(buffer.search), search_pattern),
                                     IF set_search_pattern_err(search_pattern)
                                     THEN Some("regex") ELSE None)]]

SearchNextReportsOutside(ed, forward) ==
    LET buffer == ed.buffers[ed.current]
    IN  IF search_forward_found(buffer.textarea)
        THEN [ed EXCEPT !.buffers[ed.current].textarea =
                 IF forward THEN search_forward(@, FALSE) ELSE search_back(@, FALSE)]
        ELSE [ed EXCEPT !.message = Some(NotFound),
                        !.buffers[ed.current].search = close(@)]

\* Editor::process_input, Down / Up with the overlay open.
search_next(ed, forward) ==
    LET buffer == ed.buffers[ed.current]
    IN  [ed EXCEPT !.buffers[ed.current] =
            [buffer EXCEPT
                !.textarea = IF forward THEN search_forward(@, FALSE)
                             ELSE search_back(@, FALSE),
                !.search = IF search_forward_found(buffer.textarea) THEN @
                           ELSE set_error(@, Some(NotFound))]]

ConfirmKeepsOverlay(ed) ==
    LET buffer == ed.buffers[ed.current]
    IN  IF search_forward_found(buffer.textarea)
        THEN [ed EXCEPT !.buffers[ed.current] =
                 [buffer EXCEPT
                     !.textarea = set_search_pattern(search_forward(@, TRUE), <<>>),
                     !.search = close(@)]]
        ELSE [ed EXCEPT !.buffers[ed.current].search = set_error(@, Some(NotFound))]

\* Editor::process_input, Enter with the overlay open.
confirm_search(ed) ==
    LET buffer == ed.buffers[ed.current]
    IN  [ed EXCEPT
            !.message = IF search_forward_found(buffer.textarea) THEN @ ELSE Some(NotFound),
            !.buffers[ed.current] =
                [buffer EXCEPT
                    !.textarea = set_search_pattern(search_forward(@, TRUE), <<>>),
                    !.search = close(@)]]

CancelKeepsEnginePattern(ed) ==
    [ed EXCEPT !.buffers[ed.current].search = close(@)]

\* Editor::process_input, Esc with the overlay open.
cancel_search(ed) ==
    LET buffer == ed.buffers[ed.current]
    IN  [ed EXCEPT !.buffers[ed.current] =
            [buffer EXCEPT !.textarea = set_search_pattern(@, <<>>),
                           !.search = close(@)]]

SearchKeyEditsBuffer(ed, event) ==
    LET buffer == ed.buffers[ed.current]
        r == input(buffer.textarea, event)
    IN  [ed EXCEPT !.buffers[ed.current] =
            [buffer EXCEPT !.textarea = r.textarea,
                           !.modified = @ \/ r.modified]]

\* Editor::process_input, any other key with the overlay open.
search_key(ed, event) ==
    LET buffer == ed.buffers[ed.current]
        search == search_input(buffer.search, event)
        query == search.lines[1]
    IN  IF search_input_some(event)
        THEN [ed EXCEPT !.buffers[ed.current] =
                 [buffer EXCEPT
                     !.textarea = set_search_pattern(@, query),
                     !.search = set_error(search, IF set_search_pattern_err(query)
                                                  THEN Some("regex") ELSE None)]]
        ELSE [ed EXCEPT !.buffers[ed.current].search = search]

BufferKeyMarksAll(ed, event) ==
    LET buffer == ed.buffers[ed.current]
        r == input(buffer.textarea, event)
    IN  [ed EXCEPT !.buffers =
            [i \in BufferIds |->
                IF i = ed.current
                THEN [buffer EXCEPT !.textarea = r.textarea, !.modified = @ \/ r.modified]
                ELSE [ed.buffers[i] EXCEPT !.modified = @ \/ r.modified]]]

\* Editor::process_input, any other key with the overlay closed.
buffer_key(ed, event) ==
    LET buffer == ed.buffers[ed.current]
        r == input(buffer.textarea, event)
    IN  [ed EXCEPT !.buffers[ed.current] =
            [buffer EXCEPT !.textarea = r.textarea,
                           !.modified = @ \/ r.modified]]

\* Editor::process_input: the editor after the event, and how the call ends:
\* "Continue", "Stop", "Err" (an I/O error leaves through `?`) or "Panic".
process_input(ed, event, checks, io_ok) ==
    LET buffer == ed.buffers[ed.current]
        done(e) == [ed |-> e, status |-> "Continue"]
    IN  IF event.key = "F11"
        THEN done([ed EXCEPT !.buffers[ed.current].textarea.fullscreen = toggle_fullscreen(@)])
        ELSE IF event.key = "F12"
        THEN done([ed EXCEPT !.buffers[ed.current].textarea.line_number = ~@])
        ELSE IF event.key = "q" /\ event.ctrl
        THEN [ed |-> ed, status |-> "Stop"]
        ELSE IF event.key \in Digits /\ event.alt /\ ~event.ctrl /\ ~event.shift
        THEN IF buf_idx(DigitValue(event.key), checks) = PANIC
             THEN [ed |-> ed, status |-> "Panic"]
             ELSE done(switch_buffer(ed, buf_idx(DigitValue(event.key), checks)))
        ELSE IF event.key = "s" /\ event.ctrl
        THEN IF save_err(buffer, io_ok)
             THEN [ed |-> ed, status |-> "Err"]
             ELSE done([ed EXCEPT !.buffers[ed.current] = save(buffer, io_ok),
                                  !.message = Some(Saved)])
        ELSE IF buffer.search.open
        THEN CASE event.key = "Down" -> done(search_next(ed, TRUE))
               [] event.key = "Up" -> done(search_next(ed, FALSE))
               [] event.key = "Enter" -> done(confirm_search(ed))
               [] event.key = "Esc" -> done(cancel_search(ed))
               [] OTHER -> done(search_key(ed, event))
        ELSE IF event.key = "f" /\ event.ctrl
        THEN done(open_search(ed))
        ELSE done(buffer_key(ed, event))

\* Editor::render: the message is taken (and shown) in Fullscreen::Off only.
render_message(ed) ==
    IF ed.buffers[ed.current].textarea.fullscreen = "Off" THEN None ELSE ed.message

\* Editor::render: the message the frame displays.
render_shown(ed) ==
    IF ed.buffers[ed.current].textarea.fullscreen = "Off" THEN ed.message ELSE None

\* ---------------------------------------------------------- Spec actions
Editor == [current |-> current, buffers |-> buffers, message |-> message]

\* The texts stay within the model's bounds after the event.
WithinBounds(ed) ==
    \A i \in BufferIds :
        /\ Len(ed.buffers[i].textarea.lines) <= MaxBufLines
        /\ \A r \in 1..Len(ed.buffers[i].textarea.lines) :
               Len(ed.buffers[i].textarea.lines[r]) <= MaxLineLen
        /\ \A r \in 1..Len(ed.buffers[i].search.lines) :
               Len(ed.buffers[i].search.lines[r]) <= MaxQuery

\* Editor::run, one turn of the loop up to the render: an event is read; a
\* resize is rendered at once and then skipped as Key::Null, like any other
\* Key::Null; every other input is processed.
ReadEvent(event, checks, io_ok) ==
    /\ pc = "read" /\ ~panicked /\ nread < MaxEvents
    /\ nread' = nread + 1
    /\ last_event' = event
    /\ IF event = Resize
       THEN /\ message' = render_message(Editor)
            /\ shown' = render_shown(Editor)
            /\ renders' = 1
            /\ UNCHANGED <<current, buffers, pc, panicked, files, term>>
       ELSE IF into(event) = NullKey
       THEN /\ renders' = 0
            /\ shown' = None
            /\ UNCHANGED <<current, buffers, message, pc, panicked, files, term>>
       ELSE LET r == process_input(Editor, into(event), checks, io_ok)
            IN  /\ WithinBounds(r.ed)
                /\ current' = r.ed.current
                /\ buffers' = r.ed.buffers
                /\ message' = r.ed.message
                /\ IF event = Ctrl("s")
                   THEN \E file \in save_files(buffers[current], files[current], io_ok) :
                            files' = [files EXCEPT ![current] = file]
                   ELSE UNCHANGED files
                /\ UNCHANGED term
                /\ renders' = 0
                /\ shown' = None
                /\ panicked' = (r.status = "Panic")
                /\ pc' = CASE r.status = "Continue" -> "render"
                           [] r.status = "Stop" -> "stopped"
                           [] r.status = "Err" -> "failed"
                           [] OTHER -> "panic"
    /\ UNCHANGED viewvars

EditorRenderAgain ==
    /\ pc = "render" /\ ~panicked
    /\ message' = render_message(Editor)
    /\ shown' = render_shown(Editor)
    /\ renders' = renders + 1
    /\ pc' = IF renders >= 1 THEN "read" ELSE "render"
    /\ UNCHANGED <<current, buffers, nread, last_event, panicked, files, term>>
    /\ UNCHANGED viewvars

\* Editor::run: the render that starts the loop and the one that ends a turn.
EditorRender ==
    /\ pc = "render" /\ ~panicked
    /\ message' = render_message(Editor)
    /\ shown' = render_shown(Editor)
    /\ renders' = renders + 1
    /\ pc' = "read"
    /\ UNCHANGED <<current, buffers, nread, last_event, panicked, files, term>>
    /\ UNCHANGED viewvars

\* The terminal before Editor::new and after all of its steps succeeded.
TermNone == [raw |-> FALSE, alt |-> FALSE, acquired |-> 0, released |-> 0]
TermAcquired == [raw |-> TRUE, alt |-> TRUE, acquired |-> 1, released |-> 0]

\* Editor::new, the buffers: every Buffer::new succeeded and there is a buffer,
\* or main returns the error.
NewBuffers(ok) ==
    /\ pc = "new"
    /\ pc' = IF ok /\ Len(FileLines) > 0 THEN "raw" ELSE "exited"
    /\ buffers' = [i \in BufferIds |-> BufferNew(FileLines[i + 1])]
    /\ UNCHANGED <<current, message, nread, last_event, files, term, panicked,
                   renders, shown>>
    /\ UNCHANGED viewvars

\* Editor::new, enable_raw_mode()?
EnableRawMode(ok) ==
    /\ pc = "raw"
    /\ IF ok
       THEN /\ term' = [term EXCEPT !.raw = TRUE, !.acquired = @ + 1]
            /\ pc' = "alt"
       ELSE /\ pc' = "exited"
            /\ UNCHANGED term
    /\ UNCHANGED <<current, buffers, message, nread, last_event, files, panicked,
                   renders, shown>>
    /\ UNCHANGED viewvars

\* Editor::new, execute!(stdout, EnterAlternateScreen)?: on an error new
\* returns it; no Editor exists, so no Drop runs.
EnterAlternateScreen(ok) ==
    /\ pc = "alt"
    /\ IF ok
       THEN /\ term' = [term EXCEPT !.alt = TRUE]
            /\ pc' = "term"
       ELSE /\ pc' = "exited"
            /\ UNCHANGED term
    /\ UNCHANGED <<current, buffers, message, nread, last_event, files, panicked,
                   renders, shown>>
    /\ UNCHANGED viewvars

\* Editor::new, Terminal::new(backend)?, and the entry into Editor::run.
TerminalNew(ok) ==
    /\ pc = "term"
    /\ pc' = IF ok THEN "render" ELSE "exited"
    /\ UNCHANGED <<current, buffers, message, nread, last_event, files, term, panicked,
                   renders, shown>>
    /\ UNCHANGED viewvars

\* Drop for Editor: run leaves by quit, by an error or by a panic; the editor
\* is dropped, raw mode is disabled and the alternate screen is left.
Drop ==
    /\ pc \in {"stopped", "failed", "panic"}
    /\ term' = [term EXCEPT !.raw = FALSE, !.alt = FALSE, !.released = @ + 1]
    /\ pc' = "exited"
    /\ UNCHANGED <<current, buffers, message, nread, last_event, files, panicked,
                   renders, shown>>
    /\ UNCHANGED viewvars

\* The fields Editor::new gives the editor, and the files it read.
EditorFields ==
    /\ current = 0
    /\ buffers = [i \in BufferIds |-> BufferNew(FileLines[i + 1])]
    /\ message = None
    /\ nread = 0
    /\ last_event = NullKey
    /\ files = [i \in BufferIds |-> FileBytes[i + 1]]
    /\ renders = 0
    /\ shown = None

\* Editor::new followed by the entry into Editor::run.
InitEditor ==
    /\ EditorFields
    /\ pc = "render"
    /\ term = TermAcquired

\* The scroll deltas tried: the extreme ones and single steps, on one axis or both.
Deltas == {I64Min, 0 - 1, 1, I64Max}
ScrollArgs ==
    {<<d, 0>> : d \in Deltas} \cup {<<0, d>> : d \in Deltas}
        \cup {<<I64Max, I64Min>>, <<I64Min, I64Max>>}

\* The inner rectangles tried: every width at full height, every height at full
\* width, and the empty rectangle.
Rects ==
    {<<w, U16Max>> : w \in U16} \cup {<<U16Max, h>> : h \in U16} \cup {<<0, 0>>}

\* The builds whose render differs: both when an arithmetic step of this render
\* overflows, else one.
Builds(width, height) ==
    IF RenderCalc(viewport, cursor, lines_len, line_number, width, height, TRUE).fail
           \in {"row_arith", "width_sub", "col_arith"}
    THEN BOOLEAN ELSE {TRUE}
LineCounts == {1, MaxLines}

InitViewport ==
    /\ viewport = store(0, 0, 0, 0)
    /\ cursor = <<0, 0>>
    /\ lines_len = 1
    /\ last_op = "other"

InitView ==
    /\ InitEditor
    /\ panicked = FALSE
    /\ viewport = store(0, 0, 0, 0)
    /\ cursor = <<0, 0>>
    /\ lines_len = 1
    /\ line_number \in BOOLEAN
    /\ last_op = "other"

NextView ==
    \/ \E d \in ScrollArgs : Scroll(d[1], d[2])
    \/ \E a \in Rects :
          \E checks \in Builds(a[1], a[2]) : Render(a[1], a[2], checks)
    \/ \E m \in CursorMoves : MoveCursor(m)
    \/ \E n \in LineCounts : SetLines(n)
    \/ ToggleLineNumber

SpecView == InitView /\ [][NextView]_vars

\* The checks of a turn that matter: both builds when the switch index
\* underflows, else one.  The outcomes of a save's writes: both when there is
\* something to write.
EventBuilds(event) == IF event = Alt("0") THEN BOOLEAN ELSE {TRUE}
IoOutcomes(event) ==
    IF event = Ctrl("s") /\ buffers[current].modified THEN BOOLEAN ELSE {TRUE}

\* main, at the call of Editor::new.
Init ==
    /\ EditorFields
    /\ pc = "new"
    /\ term = TermNone
    /\ InitViewport
    /\ line_number = TRUE
    /\ panicked = FALSE

Next ==
    \/ \E event \in Inputs \cup {Resize, NullKey} :
          \E checks \in EventBuilds(event), io_ok \in IoOutcomes(event) :
              ReadEvent(event, checks, io_ok)
    \/ EditorRender
    \/ \E ok \in BOOLEAN : NewBuffers(ok)
    \/ \E ok \in BOOLEAN : EnableRawMode(ok)
    \/ \E ok \in BOOLEAN : EnterAlternateScreen(ok)
    \/ \E ok \in BOOLEAN : TerminalNew(ok)
    \/ Drop

Spec == Init /\ [][Next]_vars

\* ------------------------------------------------------ claims on SpecView
\* The column window's length as the integer width - gutter (not the u64).
ColumnLength == viewport.width - line_number_offset(cursor[1], line_number)

InWindow(top, c, length) == top <= c /\ c <= top + length - 1

\* C1: after a render whose window length L is > 0, the scroll top t' that
\* next_scroll_top returned satisfies t' <= c <= t' + L - 1: the cursor row lies
\* in the stored row window, and the cursor column in the column window.
C1_CursorInWindow ==
    last_op = "render" =>
        /\ viewport.height > 0 => InWindow(viewport.row, cursor[1], viewport.height)
        /\ ColumnLength > 0 => InWindow(viewport.col, cursor[2], ColumnLength)

\* C1 witness: a render scrolled down and right, and left the cursor on the last
\* row and the last column of its window.
C1_Witness ==
    /\ last_op = "render"
    /\ viewport.row > 0 /\ viewport.height > 1
    /\ cursor[1] = viewport.row + viewport.height - 1
    /\ viewport.col > 0 /\ ColumnLength > 1
    /\ cursor[2] = viewport.col + ColumnLength - 1

\* C2: a render whose cursor coordinate already lay in [t, t + L - 1] of the
\* previous top t, for the window length L > 0 of this render, keeps t.
C2_NoJitter ==
    [][(last_op' = "render") =>
          /\ (viewport'.height > 0
                /\ InWindow(viewport.row, cursor[1], viewport'.height))
             => viewport'.row = viewport.row
          /\ (ColumnLength' > 0 /\ InWindow(viewport.col, cursor[2], ColumnLength'))
             => viewport'.col = viewport.col]_vars

\* C2 witness: after a render the cursor is strictly inside a window whose top
\* is not 0: the top is neither what scrolling up nor what scrolling down gives,
\* it is the previous one.
C2_Witness ==
    /\ last_op = "render"
    /\ viewport.row > 0
    /\ viewport.row < cursor[1]
    /\ cursor[1] < viewport.row + viewport.height - 1

\* One axis of position(): the bottom is at or below the top; it is the top for
\* a dimension of 0, top + dimension - 1 when that sum needs no saturation, and
\* it stays at the end of the unsigned range when the sum saturates.
BottomOk(top, dimension, bottom) ==
    /\ bottom >= top
    /\ bottom \in U64
    /\ dimension = 0 => bottom = top
    /\ (dimension > 0 /\ top + dimension <= U64Max) => bottom = top + dimension - 1
    /\ top + dimension > U64Max => bottom >= U64Max - 1

\* C3: for every viewport state position() returns bottoms >= tops, each bottom
\* being top + dimension - 1 with saturation, and the top when the dimension is 0.
C3_PositionBottoms ==
    LET p == position(viewport)
    IN  /\ p[1] = viewport.row /\ p[2] = viewport.col
        /\ BottomOk(viewport.row, viewport.height, p[3])
        /\ BottomOk(viewport.col, viewport.width, p[4])

\* C3 witness: a zero-sized viewport scrolled away from the origin, where
\* top + 0 - 1 is above the top; and one with the top row at the unsigned maximum.
C3_Witness ==
    /\ viewport.height = 0 /\ viewport.width = 0
    /\ viewport.row = U64Max /\ viewport.col > 0
    /\ position(viewport) = <<viewport.row, viewport.col, viewport.row, viewport.col>>

Clamp(n) == IF n < 0 THEN 0 ELSE IF n > U64Max THEN U64Max ELSE n

\* C4: a scroll by signed deltas never wraps the stored top row and column: a
\* sum below 0 is clamped to 0, a sum above the unsigned maximum to that
\* maximum; width and height are unchanged.
C4_ScrollSaturates ==
    [][\A d \in ScrollArgs :
          Scroll(d[1], d[2]) =>
              /\ viewport'.row = Clamp(viewport.row + d[1])
              /\ viewport'.col = Clamp(viewport.col + d[2])
              /\ viewport'.row \in U64 /\ viewport'.col \in U64
              /\ viewport'.width = viewport.width
              /\ viewport'.height = viewport.height]_vars

\* C4 witness: scrolls after a render left the top row clamped at the unsigned
\* maximum and the top column at 0, with the rendered width and height in place.
C4_Witness ==
    /\ last_op = "other"
    /\ viewport.row = U64Max /\ viewport.col = 0
    /\ viewport.width > 0 /\ viewport.height > 0
    /\ cursor[2] > 0

\* C5: rendering never panics, for any rectangle and any reachable state: no
\* subtraction underflows, the slice bounds are valid, the conversion of the top
\* column does not fail.
C5_RenderNeverPanics == ~panicked

\* ---------------------------------------------------------- claims on Spec
\* The whole text of a search overlay's pattern editor.
PatternText(search) == Join(search.lines, 1, Len(search.lines))

\* A turn of the loop that read `event` and processed it to the end.
Processed(event) == pc = "read" /\ pc' = "render" /\ nread' = nread + 1 /\ last_event' = event

OverlayOpen == buffers[current].search.open
SingleLine(search) == Len(search.lines) = 1 /\ \A i \in 1..Len(search.lines[1]) : search.lines[1][i] # NL

\* What C6 says of one opening step, for the seed it names.
OpenedWith(seed) ==
    LET after == buffers'[current]
    IN  /\ current' = current
        /\ after.search.open
        /\ PatternText(after.search) = seed
        /\ IF InvalidPattern(seed)
           THEN after.search.error # None
           ELSE after.search.error = None /\ after.textarea.search_pattern = seed

\* C6: opening the search overlay from the closed state seeds the pattern editor
\* with the selection's text when a selection exists, else with the pattern text
\* the overlay's previous use left; the overlay is open, the seed is the active
\* search pattern and the overlay's error is the result of applying it.
C6_OpenSeedsPattern ==
    [][(Processed(Ctrl("f")) /\ ~OverlayOpen) =>
          LET ta == buffers[current].textarea
          IN  OpenedWith(IF ta.selection_start # None THEN selection_text(ta)[1]
                         ELSE PatternText(buffers[current].search))]_vars

\* C7: cancel closes the overlay without moving the buffer's cursor and without
\* erasing the pattern text, and opening again with no selection in the buffer
\* leaves the overlay open with that same pattern text: open, type p, cancel,
\* open again ends with the pattern text p.
C7_CancelReopenRoundTrip ==
    [][/\ (Processed(Key("Esc")) /\ OverlayOpen) =>
              /\ ~buffers'[current].search.open
              /\ buffers'[current].search.lines = buffers[current].search.lines
              /\ buffers'[current].textarea.cursor = buffers[current].textarea.cursor
              /\ current' = current
       /\ (Processed(Ctrl("f")) /\ ~OverlayOpen
              /\ buffers[current].textarea.selection_start = None) =>
              /\ buffers'[current].search.open
              /\ PatternText(buffers'[current].search)
                     = PatternText(buffers[current].search)]_vars

\* C8: a confirm with the overlay open closes the overlay; when the pattern has
\* no match the buffer's cursor is unchanged, the status message is the not-found
\* message and the overlay's own error is untouched; when it has one, the
\* message is left as it was.
C8_ConfirmNotFound ==
    [][(Processed(Key("Enter")) /\ OverlayOpen) =>
          LET before == buffers[current]
              after == buffers'[current]
          IN  /\ current' = current
              /\ ~after.search.open
              /\ Matches(before.textarea) = {} =>
                     /\ after.textarea.cursor = before.textarea.cursor
                     /\ message' = Some(NotFound)
                     /\ after.search.error = before.search.error
              /\ Matches(before.textarea) # {} => message' = message]_vars

\* C8 witness: a confirm has just found nothing for a non-empty one-line
\* pattern: the overlay is closed, the not-found message is set, and the cursor is
\* where an earlier move left it.
C8_Witness ==
    /\ pc = "render" /\ last_event = Key("Enter")
    /\ message = Some(NotFound)
    /\ ~buffers[current].search.open
    /\ buffers[current].search.lines # <<<<>>>>
    /\ SingleLine(buffers[current].search)
    /\ buffers[current].textarea.cursor # <<0, 0>>

\* C9: in every reachable state the pattern text of every search overlay is a
\* single line: one line, holding no newline character.
C9_PatternSingleLine == \A i \in BufferIds : SingleLine(buffers[i].search)

IsSwitch(event) == event.key \in Digits /\ event.alt /\ ~event.ctrl /\ ~event.shift

\* C10: a buffer-switch command whose digit names no existing buffer, or names
\* the active one, is ignored: no panic, the active index and the message are
\* unchanged; and the active index is always an index of the buffer list.
C10_SwitchIgnored ==
    /\ [](current \in BufferIds)
    /\ [][(/\ pc = "read" /\ nread' = nread + 1 /\ IsSwitch(last_event')
           /\ \/ DigitValue(last_event'.key) - 1 \notin BufferIds
              \/ DigitValue(last_event'.key) - 1 = current) =>
              /\ ~panicked'
              /\ pc' = "render"
              /\ current' = current
              /\ message' = message
              /\ buffers' = buffers]_vars

\* C11: buffer isolation: every step leaves each buffer other than the active
\* one exactly as it was (lines, cursor, modified flag, search overlay), so after
\* switch-2, typing into the second buffer and switch-1 the first buffer has its
\* original content with modified false while the second is modified.
C11_BufferIsolation ==
    [][\A i \in BufferIds : i # current => buffers'[i] = buffers[i]]_vars

\* C11 witness: back on the first buffer by switch-1 after typing into the
\* second: the first is as constructed, the second is modified.
C11_Witness ==
    /\ pc = "render" /\ last_event = Alt("1")
    /\ current = 0
    /\ buffers[0] = BufferNew(FileLines[1])
    /\ buffers[1].modified
    /\ buffers[1].textarea.lines # FileLines[2]

\* A turn of the loop that read the save command while buffer i was active.
SaveStep(i) ==
    pc = "read" /\ nread' = nread + 1 /\ last_event' = Ctrl("s") /\ current = i

\* The step left the whole text of buffer i in its file.
Persisted(i) == files'[i] = Some(written(buffers[i].textarea.lines))

\* C12: modified is false at construction; a step that changes a buffer's lines
\* leaves it modified; a modified buffer stays modified until a save of that
\* buffer has put its text in the file; and a save that did not leaves modified
\* true and sets no saved message.
C12_ModifiedSticky ==
    /\ [](nread = 0 => \A i \in BufferIds : ~buffers[i].modified)
    /\ [][\A i \in BufferIds :
             /\ buffers'[i].textarea.lines # buffers[i].textarea.lines
                    => buffers'[i].modified
             /\ (buffers[i].modified /\ ~buffers'[i].modified)
                    => (SaveStep(i) /\ Persisted(i))
             /\ (SaveStep(i) /\ buffers[i].modified /\ ~Persisted(i))
                    => (buffers'[i].modified /\ message' # Some(Saved))]_vars

EndsWithNewline(bytes) == bytes # <<>> /\ bytes[Len(bytes)] = NL

\* C13: a save of a modified buffer that wrote its file clears modified, and
\* the file round-trips: split at the newlines the written bytes give back
\* exactly the buffer's lines, and the file ends with a newline exactly when the
\* last line is empty.
C13_SaveRoundTrips ==
    [][\A i \in BufferIds :
          (SaveStep(i) /\ buffers[i].modified /\ pc' = "render" /\ Persisted(i)) =>
              LET lines == buffers[i].textarea.lines
                  bytes == files'[i][1]
              IN  /\ ~buffers'[i].modified
                  /\ Split(bytes) = lines
                  /\ EndsWithNewline(bytes) <=> (lines[Len(lines)] = <<>>)]_vars

\* C14: the terminal is acquired at most once and only by the step that follows
\* a successful, non-empty buffer list; and once the process has ended after any
\* part of the acquisition, the terminal has been released exactly once: raw
\* mode is off and the alternate screen is left.
C14_TerminalReleased ==
    /\ [](term.acquired <= 1)
    /\ [](pc = "exited" /\ term.acquired > 0
             => ~term.raw /\ ~term.alt /\ term.released = 1)
    /\ [][term' # term /\ term.acquired = 0 => pc = "raw"]_vars

\* The number of the last line a render shows (lines are numbered from 1).
MaxVisibleRow == bottom_row(viewport.row, viewport.height, lines_len)

\* C15: after a render of a rectangle at least as wide as the gutter, the
\* gutter width that was subtracted from the width is digit_count(max visible
\* row) + 1 when line numbers are enabled, with as many digits as the line
\* numbers rendered on the visible lines, and 0 when they are disabled.
C15_GutterWidth ==
    (last_op = "render" /\ ColumnLength >= 0) =>
        IF line_number
        THEN /\ line_number_offset(cursor[1], line_number) = num_digits(MaxVisibleRow) + 1
             /\ line_number_offset(cursor[1], line_number) = lnum_len(lines_len) + 1
        ELSE line_number_offset(cursor[1], line_number) = 0

\* C16: a render that follows a render, with the same rectangle and nothing
\* changed in between, leaves the stored viewport as it was, for every
\* rectangle, those of zero height or zero width included.
C16_RenderIdempotent ==
    [][(/\ last_op = "render" /\ last_op' = "render"
        /\ viewport'.width = viewport.width
        /\ viewport'.height = viewport.height) => viewport' = viewport]_vars

\* C17: with the overlay open, a next-match or previous-match command leaves the
\* overlay open and the pattern text and the status message as they were; when
\* there is no match the overlay's error is the not-found error.
C17_NextKeepsOverlay ==
    [][((Processed(Key("Down")) \/ Processed(Key("Up"))) /\ OverlayOpen) =>
          LET before == buffers[current]
              after == buffers'[current]
          IN  /\ current' = current
              /\ after.search.open
              /\ after.search.lines = before.search.lines
              /\ message' = message
              /\ ~search_forward_found(before.textarea)
                     => after.search.error = Some(NotFound)]_vars

\* C17 witness: a next or previous match has just found nothing: the overlay is
\* open with a pattern and the not-found error, and no status message is set.
C17_Witness ==
    /\ pc = "render" /\ last_event \in {Key("Down"), Key("Up")}
    /\ buffers[current].search.open
    /\ buffers[current].search.lines # <<<<>>>>
    /\ buffers[current].search.error = Some(NotFound)
    /\ message = None

\* C18: in every reachable state every buffer whose search overlay is closed has
\* an empty search pattern in its text area.
C18_ClosedHasNoPattern ==
    \A i \in BufferIds :
        ~buffers[i].search.open => buffers[i].textarea.search_pattern = <<>>

\* C18 witness: a cancel has just closed an overlay whose pattern text is a
\* valid, non-empty pattern: the text is kept, the text area's pattern is empty.
C18_Witness ==
    /\ pc = "render" /\ last_event = Key("Esc")
    /\ ~buffers[current].search.open
    /\ PatternText(buffers[current].search) # <<>>
    /\ ~InvalidPattern(PatternText(buffers[current].search))
    /\ buffers[current].textarea.search_pattern = <<>>

\* The commands Editor::process_input checks before it looks at the overlay.
IsGlobal(event) ==
    \/ event.key \in {"F11", "F12"}
    \/ event.key \in {"q", "s"} /\ event.ctrl
    \/ IsSwitch(event)

\* A turn of the loop that read `event`, however it ended.
Read(event) == pc = "read" /\ nread' = nread + 1 /\ last_event' = event

\* C19: with the active buffer's overlay open, an input that is no global
\* command leaves the lines and the modified flag of every buffer unchanged;
\* and the global commands act whether the overlay is open or not: the
\* fullscreen and line-number toggles toggle, quit stops the loop, a switch to
\* another existing buffer makes it active, a save that returns Ok clears
\* modified.
C19_OverlayTakesInput ==
    [][/\ \A event \in Inputs :
              (Read(event) /\ OverlayOpen /\ ~IsGlobal(event)) =>
                  \A i \in BufferIds :
                      /\ buffers'[i].textarea.lines = buffers[i].textarea.lines
                      /\ buffers'[i].modified = buffers[i].modified
       /\ Read(Key("F11")) =>
              buffers'[current].textarea.fullscreen
                  = toggle_fullscreen(buffers[current].textarea.fullscreen)
       /\ Read(Key("F12")) =>
              buffers'[current].textarea.line_number
                  = ~buffers[current].textarea.line_number
       /\ Read(Ctrl("q")) => pc' = "stopped"
       /\ \A d \in Digits :
              (/\ Read(Alt(d))
               /\ DigitValue(d) - 1 \in BufferIds
               /\ DigitValue(d) - 1 # current) => current' = DigitValue(d) - 1
       /\ (Read(Ctrl("s")) /\ pc' = "render") => ~buffers'[current].modified]_vars

\* C19 witness: a character has just been typed with the overlay open: it is in
\* the pattern, and the buffer is as it was constructed.
C19_Witness ==
    /\ pc = "render" /\ last_event = Key("a")
    /\ buffers[current].search.open
    /\ buffers[current].search.lines = <<<<"a">>>>
    /\ buffers[current] = [BufferNew(FileLines[current + 1]) EXCEPT
                              !.search = buffers[current].search,
                              !.textarea.search_pattern = <<"a">>]

\* C20: the save command on an unmodified active buffer changes nothing: no
\* file is written, modified stays false, and the buffers, the active index and
\* the status message are as they were.
C20_SaveUnmodifiedNoOp ==
    [][(Read(Ctrl("s")) /\ ~buffers[current].modified) =>
          /\ files' = files
          /\ buffers' = buffers
          /\ current' = current
          /\ message' = message]_vars

\* C21: in the run loop there are never two renders after one read; when the
\* next event is about to be read, the last one was followed by exactly one
\* render, or by none if it was a null key; a resize is rendered at once; a null
\* key that is no resize changes nothing and is not rendered; and quit stops
\* the loop: no event is read after it.
C21_OneRenderPerEvent ==
    /\ [](renders <= 1)
    /\ [](pc = "read" /\ nread > 0
             => renders = IF last_event = NullKey THEN 0 ELSE 1)
    /\ [][/\ Read(Resize) => (renders' = 1 /\ pc' = "read")
          /\ Read(NullKey) =>
                 /\ renders' = 0 /\ pc' = "read"
                 /\ UNCHANGED <<current, buffers, message, files, term>>
          /\ Read(Ctrl("q")) => (renders' = 0 /\ pc' = "stopped")
          /\ pc \in {"stopped", "exited"} => nread' = nread]_vars

\* C21 witness: a key was processed and rendered once, then a resize was read
\* and rendered once, and the next read is due.
C21_Witness ==
    /\ pc = "read" /\ nread >= 2
    /\ last_event = Resize
    /\ renders = 1
    /\ buffers[current].modified

\* C22: a status message set while an event was processed is displayed by the
\* render that follows the event, in every fullscreen mode, and by no later one:
\* that render displays it, and no message is pending when the next event is
\* read.
C22_MessageShownOnce ==
    /\ [][(pc = "render" /\ pc' = "read" /\ message # None)
              => (shown' = message /\ message' = None)]_vars
    /\ [](pc = "read" => message = None)

====
